---- MODULE Spec2Model ----
(***************************************************************************)
(* Model of src/prom_updater.py of prom-sync-API: one run of main() (feed  *)
(* parsing, the Prom product map, the diff that builds the update list)    *)
(* and the batch dispatcher (send_updates_async / send_batch).             *)
(*                                                                         *)
(* Conventions                                                             *)
(*  - Python's None / a missing XML node or attribute is the empty         *)
(*    sequence <<>>; a present value x is <<x>>.  A missing or blank text  *)
(*    is the empty string "".                                              *)
(*  - Prices are integers counting thousandths of a currency unit, so that *)
(*    round(x, 2) is a real operation (Round2) and not the identity.       *)
(*  - A payload entry (a Python dict) is a function whose DOMAIN is the    *)
(*    set of keys the dict holds.                                          *)
(***************************************************************************)
EXTENDS Integers, Sequences, FiniteSets, TLC

VARIABLES
    pc,          \* position of main(): "start","loaded","mapped","built","sent"
    feed,        \* the <offer> elements of the downloaded feed document
    offers,      \* main's `offers` (list of dicts vendor_code/price/quantity)
    signal,      \* history: signal[i] <=> the element behind offers[i] carried
                 \* a quantity-like tag or an `available` attribute
    prom_map,    \* main's `prom_map` (vendor code -> id/price/quantity)
    updates,     \* main's `updates`
    upd_src,     \* history: upd_src[k] = index in offers of the offer behind updates[k]
    posted,      \* the products arrays POSTed to PROM_EDIT_URL, one per batch
    batches,     \* send_updates_async's `batches`
    wpc,         \* per batch: position of its worker / send_batch call
    retries,     \* per batch: send_batch's `retries`
    requests,    \* history, per batch: number of session.post calls made
    sleeps,      \* history, per batch: number of asyncio.sleep calls made
    last,        \* history, per batch: outcome of the latest request (<<>> if none)
    nTransient,  \* history, per batch: responses that were 429, 5xx or an exception
    result,      \* per batch: the `ok` returned by send_batch (<<>> while running)
    sem,         \* free slots of asyncio.Semaphore(MAX_CONCURRENT)
    total_sent,  \* send_updates_async's return value (<<>> until it returns)
    \* consecutive runs of main() against the Prom catalogue and the cache file
    run,         \* number of the current run of main()
    remote,      \* the Prom catalogue: what the products listing returns
    cache,       \* content of CACHE_FILE (<<>> when the file does not exist)
    cache_fresh, \* the age of CACHE_FILE is within CACHE_TTL
    prev,        \* history: offers, updates and POST results of the previous run
    \* change_detector.py
    state_file,  \* STATE_FILE on disk: missing, damaged or a JSON document
    d_pc,        \* position of the process calling detect_changes / persist_state
    d_urls,      \* detect_changes' feed_urls
    d_old,       \* detect_changes' old_state
    d_new,       \* detect_changes' new_state
    d_changed,   \* detect_changes' changed
    d_seen,      \* history: per URL visited, what HEAD and GET answered
    d_base,      \* history: state_file when persist_state was called
    \* feed_parser.py
    x_pc,        \* "ready", "parsed" (iter_offers ran), "reparsed" (ran on its output)
    x_index,     \* feed_index of fetch_offers_from_url
    x_doc,       \* the <offer> elements of the document given to iter_offers
    x_args,      \* history: per element, the arguments given to make_unique_code
    x_out,       \* the elements iter_offers yielded
    x_first,     \* history: what the first pass yielded (set by the second pass)
    \* fetch_all_offers (feed_parser.py) / load_all_feeds (prom_updater.py)
    g_pc,        \* "idle", "fetching" (tasks created, gather awaits), "merged"
    g_impl,      \* which of the two loaders runs
    g_feeds,     \* per feed URL, the document its server holds
    g_done,      \* per feed, None while its task runs, else what the task returned
    g_order,     \* history: the feeds in the order their tasks finished
    g_all,       \* the merged offer list (None until it is built)
    \* get_prom_products_map (prom_updater.py)
    p_pc,        \* position in get_prom_products_map
    p_total,     \* total of the first page (None when it declares none)
    p_page,      \* the fallback loop's page
    p_pending,   \* pages whose page_worker has not fetched yet
    p_req,       \* history: the pages requested, in request order
    p_got,       \* per requested page, what fetch_prom_page returned
    p_cache      \* CACHE_FILE after the call (None when not written)

mainVars == <<pc, feed, offers, signal, prom_map, updates, upd_src, posted>>
sendVars == <<batches, wpc, retries, requests, sleeps, last, nTransient, result,
              sem, total_sent>>
runVars == <<run, remote, cache, cache_fresh, prev>>
detVars == <<state_file, d_pc, d_urls, d_old, d_new, d_changed, d_seen, d_base>>
parseVars == <<x_pc, x_index, x_doc, x_args, x_out, x_first>>
gatherVars == <<g_pc, g_impl, g_feeds, g_done, g_order, g_all>>
pageVars == <<p_pc, p_total, p_page, p_pending, p_req, p_got, p_cache>>
vars == <<pc, feed, offers, signal, prom_map, updates, upd_src, posted,
          batches, wpc, retries, requests, sleeps, last, nTransient, result,
          sem, total_sent,
          run, remote, cache, cache_fresh, prev,
          state_file, d_pc, d_urls, d_old, d_new, d_changed, d_seen, d_base,
          x_pc, x_index, x_doc, x_args, x_out, x_first,
          g_pc, g_impl, g_feeds, g_done, g_order, g_all,
          p_pc, p_total, p_page, p_pending, p_req, p_got, p_cache>>

None == <<>>
Some(x) == <<x>>

(***************************************************************************)
(* Configuration (environment variables read at import time).              *)
(***************************************************************************)
\* BATCH_SIZE and MAX_CONCURRENT are configured small (the defaults are 100
\* and 6) so that several batches and a full semaphore occur in small runs.
BATCH_SIZE == 2
MAX_CONCURRENT == 2
MAX_RETRIES == 3
TEST_LIMIT == 5
TEST_MODE == FALSE
\* The run modelled is a sending run (DRY_RUN=0): main reaches line 441.
DRY_RUN == FALSE

(***************************************************************************)
(* Bounds of the model.                                                    *)
(***************************************************************************)
MaxOffers == 2      \* <offer> elements in the feed document
MaxUpdates == 5     \* length of the update list handed to the dispatcher

(***************************************************************************)
(* Input domains.                                                          *)
(***************************************************************************)
\* (text of the first of vendorCode/article/sku, value of the id attribute)
Idents == { <<"a", "">>, <<"", "b">> }
\* parsed <price> (thousandths); None: no <price> or an unparsable one
FeedPrices == { None, Some(100004), Some(199900) }
\* (value of the first quantity-like tag, value of the `available` attribute)
Availabilities == { <<None, None>>, <<Some(0), None>>, <<Some(3), None>>,
                    <<None, Some("true")>>, <<None, Some("false")>>,
                    <<Some(0), Some("true")>> }
Elem(ident, p, av) ==
    [code |-> ident[1], id |-> ident[2], price |-> p,
     quantity |-> av[1], available |-> av[2]]
OfferElems ==
    { Elem(i, p, av) : i \in Idents, p \in FeedPrices, av \in Availabilities }
    \cup { Elem(<<"", "">>, Some(199900), <<Some(3), None>>) }

SeqsUpTo(S, n) == UNION { [1..k -> S] : k \in 0..n }

\* the entries get_prom_products_map builds (lines 280-284)
PromItem(i, p, q) == [id |-> i, price |-> p, quantity |-> q]
PromId(vc) == IF vc = "a" THEN 11 ELSE 12
PromValues == { <<99996, 3>>, <<199900, 0>> }
PromMaps ==
    UNION { { [vc \in D |-> PromItem(PromId(vc), f[vc][1], f[vc][2])] :
              f \in [D -> PromValues] } : D \in SUBSET {"a", "b"} }

(***************************************************************************)
(* Pure functions.                                                         *)
(***************************************************************************)
\* variant: the prices are compared as they are, without rounding
Round2_identity(x) == x

\* round(x, 2) on a price in thousandths: to the nearest hundredth, a tie
\* going to the even hundredth.  (The price domains hold no tie, whose
\* outcome depends in Python on the binary value of the float.)
Round2(x) ==
    LET q == x \div 10
        r == x % 10
    IN  IF r < 5 THEN q * 10
        ELSE IF r > 5 THEN (q + 1) * 10
        ELSE IF q % 2 = 0 THEN q * 10 ELSE (q + 1) * 10

AvailableWords == {"true", "1", "yes", "available", "in_stock"}

\* parse_offer_elem: (vendor_code, price, qty), each None when not found
parse_offer_elem(elem) ==
    LET vendor_code == IF elem.code # "" THEN Some(elem.code)
                       ELSE IF elem.id # "" THEN Some(elem.id) ELSE None
        qty == IF elem.quantity # None THEN elem.quantity
               ELSE IF elem.available # None
                    THEN IF elem.available[1] \in AvailableWords
                         THEN Some(1) ELSE Some(0)
                    ELSE None
    IN  <<vendor_code, elem.price, qty>>

\* the dict fetch_feed appends for one element (line 116)
OfferOf(elem) ==
    LET t == parse_offer_elem(elem)
    IN  [vendor_code |-> t[1][1], price |-> t[2],
         quantity |-> IF t[3] # None THEN t[3][1] ELSE 0]

\* the element names a vendor code, so fetch_feed keeps it (line 115)
Kept(elem) == parse_offer_elem(elem)[1] # None

\* the element carries an availability signal
HasSignal(elem) == elem.quantity # None \/ elem.available # None

RECURSIVE ParseFeed(_)
ParseFeed(elems) ==
    IF elems = <<>> THEN <<>>
    ELSE IF Kept(Head(elems))
         THEN <<OfferOf(Head(elems))>> \o ParseFeed(Tail(elems))
         ELSE ParseFeed(Tail(elems))

RECURSIVE SignalsOf(_)
SignalsOf(elems) ==
    IF elems = <<>> THEN <<>>
    ELSE IF Kept(Head(elems))
         THEN <<HasSignal(Head(elems))>> \o SignalsOf(Tail(elems))
         ELSE SignalsOf(Tail(elems))

\* needs_update(prom_item, feed_price, feed_qty)
needs_update(prom_item, feed_price, feed_qty) ==
    LET prom_price == Round2(prom_item.price)
        prom_qty == prom_item.quantity
        feed_price_r == IF feed_price = None THEN 0 ELSE Round2(feed_price[1])
        feed_qty_i == feed_qty
    IN  (feed_price_r # prom_price) \/ (feed_qty_i # prom_qty)

\* the payload entry main builds for offer o matched to prom_item (lines 416-424)
Entry(prom_item, o) ==
    LET q == o.quantity
        base == [id |-> prom_item.id,
                 quantity_in_stock |-> q,
                 presence |-> IF q > 0 THEN "available" ELSE "not_available",
                 presence_sure |-> TRUE]
    IN  IF o.price # None
        THEN base @@ ("price" :> Round2(o.price[1]))
        ELSE base

\* prom_map.get(vc) (line 410)
PromGet(pm, vc) == IF vc \in DOMAIN pm THEN Some(pm[vc]) ELSE None

\* variant: an offer unknown to Prom is sent as a product to create
UpdateFor_create(pm, o) ==
    LET prom_item == PromGet(pm, o.vendor_code)
    IN  IF prom_item = None THEN Some(Entry(PromItem(0, 0, 0), o))
        ELSE IF needs_update(prom_item[1], o.price, o.quantity)
             THEN Some(Entry(prom_item[1], o))
             ELSE None

\* main's loop body for one offer (lines 407-425): the update it appends,
\* None when the offer is skipped
UpdateFor(pm, o) ==
    LET prom_item == PromGet(pm, o.vendor_code)
    IN  IF prom_item = None THEN None
        ELSE IF needs_update(prom_item[1], o.price, o.quantity)
             THEN Some(Entry(prom_item[1], o))
             ELSE None

\* main's loop (lines 404-425) over offers[i..]: the updates appended
RECURSIVE BuildFrom(_, _, _)
BuildFrom(pm, offs, i) ==
    IF i > Len(offs) THEN <<>>
    ELSE UpdateFor(pm, offs[i]) \o BuildFrom(pm, offs, i + 1)

\* ... and, for each update, the index of the offer behind it
RECURSIVE SourcesFrom(_, _, _)
SourcesFrom(pm, offs, i) ==
    IF i > Len(offs) THEN <<>>
    ELSE (IF UpdateFor(pm, offs[i]) # None THEN <<i>> ELSE <<>>)
         \o SourcesFrom(pm, offs, i + 1)

\* variant: a Prom product no offer names is switched to not_available
BuildUpdatesList_removals(pm, offs) ==
    LET gone(vc) == IF vc \in DOMAIN pm /\ \A i \in DOMAIN offs : offs[i].vendor_code # vc
                    THEN <<[id |-> pm[vc].id, quantity_in_stock |-> 0,
                            presence |-> "not_available", presence_sure |-> TRUE]>>
                    ELSE <<>>
    IN  BuildFrom(pm, offs, 1) \o gone("a") \o gone("b")

\* main lines 404-425: the update list of a run
BuildUpdatesList(pm, offs) == BuildFrom(pm, offs, 1)

\* send_updates_async lines 359-364: the batches of an update list
Limited(upds) ==
    IF TEST_MODE /\ Len(upds) > TEST_LIMIT THEN SubSeq(upds, 1, TEST_LIMIT) ELSE upds
\* variant: only the full chunks are taken, a shorter last chunk is dropped
NumBatches_floor(n) == n \div BATCH_SIZE

\* number of start indices in range(0, n, BATCH_SIZE)
NumBatches(n) == (n + BATCH_SIZE - 1) \div BATCH_SIZE
Min(a, b) == IF a < b THEN a ELSE b
Batches(upds) ==
    LET u == Limited(upds)
    IN  [k \in 1..NumBatches(Len(u)) |->
            SubSeq(u, (k - 1) * BATCH_SIZE + 1, Min(k * BATCH_SIZE, Len(u)))]

(***************************************************************************)
(* main(): one run of the pipeline.                                        *)
(***************************************************************************)
\* the parts of the state a specification does not use stay as they are here
MainIdle ==
    /\ pc = "idle" /\ feed = <<>> /\ offers = <<>> /\ signal = <<>>
    /\ prom_map = <<>> /\ updates = <<>> /\ upd_src = <<>> /\ posted = <<>>
RunIdle ==
    /\ run = 1 /\ remote = <<>> /\ cache = <<>> /\ cache_fresh = FALSE
    /\ prev = <<>>
DetIdle ==
    /\ state_file = <<>> /\ d_pc = "idle" /\ d_urls = <<>> /\ d_old = <<>>
    /\ d_new = <<>> /\ d_changed = FALSE /\ d_seen = <<>> /\ d_base = <<>>
ParseIdle ==
    /\ x_pc = "idle" /\ x_index = 0 /\ x_doc = <<>> /\ x_args = <<>>
    /\ x_out = <<>> /\ x_first = <<>>

GatherIdle ==
    /\ g_pc = "idle" /\ g_impl = "" /\ g_feeds = <<>> /\ g_done = <<>>
    /\ g_order = <<>> /\ g_all = <<>>

PageIdle ==
    /\ p_pc = "idle" /\ p_total = <<>> /\ p_page = 0 /\ p_pending = {}
    /\ p_req = <<>> /\ p_got = <<>> /\ p_cache = <<>>

SendIdle ==
    /\ batches = <<>> /\ wpc = <<>> /\ retries = <<>> /\ requests = <<>>
    /\ sleeps = <<>> /\ last = <<>> /\ nTransient = <<>> /\ result = <<>>
    /\ sem = MAX_CONCURRENT /\ total_sent = None

Init ==
    /\ pc = "start"
    /\ feed \in SeqsUpTo(OfferElems, MaxOffers)
    /\ offers = <<>> /\ signal = <<>>
    /\ prom_map = <<>>
    /\ updates = <<>> /\ upd_src = <<>>
    /\ posted = <<>>
    /\ SendIdle /\ RunIdle /\ DetIdle /\ ParseIdle /\ GatherIdle /\ PageIdle

\* load_all_feeds / fetch_feed for a feeds file naming one URL: the download
\* fails (-> []) or the document is parsed element by element.  (A
\* quantity-like tag whose text is no number is not among the inputs.)
LoadAllFeeds ==
    /\ pc = "start"
    /\ \E downloaded \in BOOLEAN :
          /\ offers' = IF downloaded THEN ParseFeed(feed) ELSE <<>>
          /\ signal' = IF downloaded THEN SignalsOf(feed) ELSE <<>>
    /\ pc' = "loaded"
    /\ UNCHANGED <<feed, prom_map, updates, upd_src, posted>>
    /\ UNCHANGED sendVars
    /\ UNCHANGED <<runVars, detVars, parseVars, gatherVars, pageVars>>

\* get_prom_products_map: the map built from the cache or the remote listing
GetPromMap ==
    /\ pc = "loaded"
    /\ prom_map' \in PromMaps
    /\ pc' = "mapped"
    /\ UNCHANGED <<feed, offers, signal, updates, upd_src, posted>>
    /\ UNCHANGED sendVars
    /\ UNCHANGED <<runVars, detVars, parseVars, gatherVars, pageVars>>

\* main lines 403-425: build the updates for the changed items
BuildUpdates ==
    /\ pc = "mapped"
    /\ updates' = BuildUpdatesList(prom_map, offers)
    /\ upd_src' = SourcesFrom(prom_map, offers, 1)
    /\ pc' = "built"
    /\ UNCHANGED <<feed, offers, signal, prom_map, posted>>
    /\ UNCHANGED sendVars
    /\ UNCHANGED <<runVars, detVars, parseVars, gatherVars, pageVars>>

\* main lines 435-441 with send_updates_async: every batch of the update list
\* is POSTed (send_batch's loop body runs at least once for each batch)
SendUpdates ==
    /\ pc = "built"
    /\ ~DRY_RUN
    /\ posted' = Batches(updates)
    /\ pc' = "sent"
    /\ UNCHANGED <<feed, offers, signal, prom_map, updates, upd_src>>
    /\ UNCHANGED sendVars
    /\ UNCHANGED <<runVars, detVars, parseVars, gatherVars, pageVars>>

Next == LoadAllFeeds \/ GetPromMap \/ BuildUpdates \/ SendUpdates

Spec == Init /\ [][Next]_vars

(***************************************************************************)
(* The batch dispatcher: send_updates_async and send_batch.                *)
(***************************************************************************)
\* what one session.post can end in: a response with a status, or an
\* exception (timeout, transport error)
Status(n) == [exc |-> FALSE, status |-> n]
Exception == [exc |-> TRUE, status |-> 0]
Statuses == {200, 204, 404, 429, 501, 503}
Outcomes == { Status(n) : n \in Statuses } \cup { Exception }

\* variant: the loop test written with < (one attempt fewer)
LoopContinues_strict(r) == r < MAX_RETRIES

\* send_batch's `while retries <= MAX_RETRIES` (line 327)
LoopContinues(r) == r <= MAX_RETRIES

\* variant: every non-200 response is retried
Classify_retryAll(o) ==
    IF o.exc THEN "retry"
    ELSE IF o.status = 200 THEN "ok"
    ELSE "retry"

\* variant: the success test is missing, a 200 falls through to the failure
Classify_noSuccess(o) ==
    IF o.exc THEN "retry"
    ELSE IF o.status \in {429, 500, 502, 503, 504} THEN "retry"
    ELSE "fail"

\* send_batch's handling of one outcome (lines 331-348):
\* "ok" = return True, "retry" = sleep and go round again, "fail" = return False
Classify(o) ==
    IF o.exc THEN "retry"
    ELSE IF o.status = 200 THEN "ok"
    ELSE IF o.status \in {429, 500, 502, 503, 504} THEN "retry"
    ELSE "fail"

\* the outcomes the dispatcher is documented to retry: 429, 500, 502, 503,
\* 504 and exceptions (used by the history variable nTransient only)
Retried(o) == o.exc \/ o.status \in {429, 500, 502, 503, 504}

RECURSIVE SumSent(_, _, _)
\* send_updates_async lines 375-377 over results k..: total of the ok batches
SumSent(bs, res, k) ==
    IF k > Len(bs) THEN 0
    ELSE (IF res[k] = Some(TRUE) THEN Len(bs[k]) ELSE 0) + SumSent(bs, res, k + 1)

\* an update list of n abstract entries
AbstractUpdates(n) == [k \in 1..n |-> [id |-> k]]

InitSend ==
    /\ pc = "built"
    /\ feed = <<>> /\ offers = <<>> /\ signal = <<>> /\ prom_map = <<>>
    /\ \E n \in 0..MaxUpdates : updates = AbstractUpdates(n)
    /\ upd_src = <<>>
    /\ posted = <<>>
    /\ SendIdle /\ RunIdle /\ DetIdle /\ ParseIdle /\ GatherIdle /\ PageIdle

\* send_updates_async lines 354-356: nothing to send
SendNothing ==
    /\ pc = "built" /\ ~DRY_RUN
    /\ updates = <<>>
    /\ total_sent' = Some(0)
    /\ pc' = "sent"
    /\ UNCHANGED <<feed, offers, signal, prom_map, updates, upd_src, posted>>
    /\ UNCHANGED <<batches, wpc, retries, requests, sleeps, last, nTransient,
                   result, sem>>
    /\ UNCHANGED <<runVars, detVars, parseVars, gatherVars, pageVars>>

\* send_updates_async lines 359-373: chunk, create the semaphore and one
\* worker task per batch
StartSend ==
    /\ pc = "built" /\ ~DRY_RUN
    /\ updates # <<>>
    /\ batches' = Batches(updates)
    /\ LET B == DOMAIN Batches(updates)
       IN  /\ wpc' = [i \in B |-> "queued"]
           /\ retries' = [i \in B |-> 0]
           /\ requests' = [i \in B |-> 0]
           /\ sleeps' = [i \in B |-> 0]
           /\ last' = [i \in B |-> None]
           /\ nTransient' = [i \in B |-> 0]
           /\ result' = [i \in B |-> None]
    /\ sem' = MAX_CONCURRENT
    /\ pc' = "sending"
    /\ UNCHANGED <<feed, offers, signal, prom_map, updates, upd_src, posted,
                   total_sent>>
    /\ UNCHANGED <<runVars, detVars, parseVars, gatherVars, pageVars>>

\* variant: the worker calls send_batch without waiting for a slot
Acquire_noWait(i) ==
    /\ pc = "sending" /\ wpc[i] = "queued"
    /\ sem' = sem - 1
    /\ wpc' = [wpc EXCEPT ![i] = "loop"]
    /\ UNCHANGED mainVars
    /\ UNCHANGED <<batches, retries, requests, sleeps, last, nTransient, result,
                   total_sent>>
    /\ UNCHANGED <<runVars, detVars, parseVars, gatherVars, pageVars>>

\* worker: `async with sem` entered, send_batch called (retries = 0)
Acquire(i) ==
    /\ pc = "sending" /\ wpc[i] = "queued"
    /\ sem > 0
    /\ sem' = sem - 1
    /\ wpc' = [wpc EXCEPT ![i] = "loop"]
    /\ UNCHANGED mainVars
    /\ UNCHANGED <<batches, retries, requests, sleeps, last, nTransient, result,
                   total_sent>>
    /\ UNCHANGED <<runVars, detVars, parseVars, gatherVars, pageVars>>

\* send_batch: the loop test passes and the batch is POSTed
Post(i) ==
    /\ pc = "sending" /\ wpc[i] = "loop"
    /\ LoopContinues(retries[i])
    /\ wpc' = [wpc EXCEPT ![i] = "inflight"]
    /\ requests' = [requests EXCEPT ![i] = @ + 1]
    /\ UNCHANGED mainVars
    /\ UNCHANGED <<batches, retries, sleeps, last, nTransient, result, sem,
                   total_sent>>
    /\ UNCHANGED <<runVars, detVars, parseVars, gatherVars, pageVars>>

\* variant: a worker whose send_batch returns keeps its semaphore slot
Respond_noRelease(i) ==
    /\ pc = "sending" /\ wpc[i] = "inflight"
    /\ \E o \in Outcomes :
          /\ last' = [last EXCEPT ![i] = Some(o)]
          /\ nTransient' = [nTransient EXCEPT ![i] = IF Retried(o) THEN @ + 1 ELSE @]
          /\ IF Classify(o) = "retry"
             THEN /\ wpc' = [wpc EXCEPT ![i] = "sleep"]
                  /\ sleeps' = [sleeps EXCEPT ![i] = @ + 1]
                  /\ UNCHANGED result
             ELSE /\ wpc' = [wpc EXCEPT ![i] = "done"]
                  /\ result' = [result EXCEPT ![i] = Some(Classify(o) = "ok")]
                  /\ UNCHANGED sleeps
    /\ UNCHANGED sem
    /\ UNCHANGED mainVars
    /\ UNCHANGED <<batches, retries, requests, total_sent>>
    /\ UNCHANGED <<runVars, detVars, parseVars, gatherVars, pageVars>>

\* send_batch: the request ends; return True, return False or start the
\* backoff sleep of 2 ** retries seconds.  A return releases the semaphore.
Respond(i) ==
    /\ pc = "sending" /\ wpc[i] = "inflight"
    /\ \E o \in Outcomes :
          /\ last' = [last EXCEPT ![i] = Some(o)]
          /\ nTransient' = [nTransient EXCEPT ![i] = IF Retried(o) THEN @ + 1 ELSE @]
          /\ IF Classify(o) = "retry"
             THEN /\ wpc' = [wpc EXCEPT ![i] = "sleep"]
                  /\ sleeps' = [sleeps EXCEPT ![i] = @ + 1]
                  /\ UNCHANGED <<result, sem>>
             ELSE /\ wpc' = [wpc EXCEPT ![i] = "done"]
                  /\ result' = [result EXCEPT ![i] = Some(Classify(o) = "ok")]
                  /\ sem' = sem + 1
                  /\ UNCHANGED sleeps
    /\ UNCHANGED mainVars
    /\ UNCHANGED <<batches, retries, requests, total_sent>>
    /\ UNCHANGED <<runVars, detVars, parseVars, gatherVars, pageVars>>

\* send_batch: the backoff sleep is over, retries += 1, back to the loop test
Wake(i) ==
    /\ pc = "sending" /\ wpc[i] = "sleep"
    /\ retries' = [retries EXCEPT ![i] = @ + 1]
    /\ wpc' = [wpc EXCEPT ![i] = "loop"]
    /\ UNCHANGED mainVars
    /\ UNCHANGED <<batches, requests, sleeps, last, nTransient, result, sem,
                   total_sent>>
    /\ UNCHANGED <<runVars, detVars, parseVars, gatherVars, pageVars>>

\* send_batch: the loop test fails, return False (lines 349-350)
GiveUp(i) ==
    /\ pc = "sending" /\ wpc[i] = "loop"
    /\ ~LoopContinues(retries[i])
    /\ wpc' = [wpc EXCEPT ![i] = "done"]
    /\ result' = [result EXCEPT ![i] = Some(FALSE)]
    /\ sem' = sem + 1
    /\ UNCHANGED mainVars
    /\ UNCHANGED <<batches, retries, requests, sleeps, last, nTransient,
                   total_sent>>
    /\ UNCHANGED <<runVars, detVars, parseVars, gatherVars, pageVars>>

\* send_updates_async: gather returns, the sent items are summed (374-378)
Gather ==
    /\ pc = "sending"
    /\ \A i \in DOMAIN batches : wpc[i] = "done"
    /\ total_sent' = Some(SumSent(batches, result, 1))
    /\ pc' = "sent"
    /\ UNCHANGED <<feed, offers, signal, prom_map, updates, upd_src, posted>>
    /\ UNCHANGED <<batches, wpc, retries, requests, sleeps, last, nTransient,
                   result, sem>>
    /\ UNCHANGED <<runVars, detVars, parseVars, gatherVars, pageVars>>

NextSend ==
    \/ SendNothing
    \/ StartSend
    \/ \E i \in DOMAIN batches : Acquire(i)
    \/ \E i \in DOMAIN batches : Post(i)
    \/ \E i \in DOMAIN batches : Respond(i)
    \/ \E i \in DOMAIN batches : Wake(i)
    \/ \E i \in DOMAIN batches : GiveUp(i)
    \/ Gather

SpecSend == InitSend /\ [][NextSend]_vars

(***************************************************************************)
(* Properties of the dispatcher (checked under SpecSend).                  *)
(***************************************************************************)
Done(i) == wpc[i] = "done"
LastStatusIn(i, S) == last[i] # None /\ ~last[i][1].exc /\ last[i][1].status \in S

\* C1: a batch whose every attempt ended in an outcome the dispatcher retries
\* (429/500/502/503/504 or an exception) is sent MAX_RETRIES + 1 times, that
\* is retried exactly MAX_RETRIES times, then returns False; and no batch is
\* ever sent more than MAX_RETRIES + 1 times.
C1_RetryBound ==
    \A i \in DOMAIN batches :
        /\ requests[i] <= MAX_RETRIES + 1
        /\ (Done(i) /\ nTransient[i] = requests[i])
              => /\ requests[i] - 1 = MAX_RETRIES
                 /\ result[i] = Some(FALSE)

C1_Witness ==
    \E i \in DOMAIN batches :
        Done(i) /\ nTransient[i] = requests[i] /\ requests[i] = MAX_RETRIES + 1
        /\ result[i] = Some(FALSE)

\* C2 (as claimed): an answer that is 429, any 5xx or an exception never ends
\* the batch while attempts remain: the batch is done after such an answer
\* only when the retry bound is exhausted.
TransientAsClaimed(o) == o.exc \/ o.status = 429 \/ o.status \in 500..599
C2_Claim ==
    \A i \in DOMAIN batches :
        (Done(i) /\ last[i] # None /\ TransientAsClaimed(last[i][1]))
            => retries[i] > MAX_RETRIES

\* C3 (as claimed): a finished batch is recorded as succeeded exactly when
\* its final response had a 2xx status.
C3_Claim ==
    \A i \in DOMAIN batches :
        Done(i) => (result[i] = Some(TRUE) <=> LastStatusIn(i, 200..299))

\* C4: once a batch is answered with a 4xx other than 429 it is finished and
\* failed at once: no backoff sleep follows that request (every earlier
\* request was followed by exactly one) and no further request is made.
Permanent4xx == (400..499) \ {429}
C4_PermanentNotRetried ==
    \A i \in DOMAIN batches :
        LastStatusIn(i, Permanent4xx)
            => /\ Done(i)
               /\ result[i] = Some(FALSE)
               /\ sleeps[i] = requests[i] - 1

C4_Witness ==
    \E i \in DOMAIN batches :
        LastStatusIn(i, Permanent4xx) /\ Done(i) /\ requests[i] = 2 /\ sleeps[i] = 1

\* C5: a batch whose first k attempts were transient (k < MAX_RETRIES) and
\* whose next attempt returned 200 is recorded as succeeded after exactly
\* k + 1 requests; with MAX_RETRIES = 3: 429, 429, 200 ends as succeeded.
C5_SuccessAfterTransients ==
    \A i \in DOMAIN batches :
        (LastStatusIn(i, {200}) /\ nTransient[i] < MAX_RETRIES)
            => /\ Done(i)
               /\ result[i] = Some(TRUE)
               /\ requests[i] = nTransient[i] + 1

C5_Witness ==
    \E i \in DOMAIN batches :
        /\ MAX_RETRIES = 3
        /\ LastStatusIn(i, {200}) /\ nTransient[i] = 2 /\ requests[i] = 3
        /\ result[i] = Some(TRUE)

(***************************************************************************)
(* Properties of main's diff and of the payloads it sends (under Spec).    *)
(***************************************************************************)
Built == pc \in {"built", "sent"}
Range(f) == { f[x] : x \in DOMAIN f }
\* offer i was put in the change set
Included(i) == i \in Range(upd_src)
\* offer i names a product of the Prom map
Matched(i) == offers[i].vendor_code \in DOMAIN prom_map
Stored(i) == prom_map[offers[i].vendor_code]
\* two prices (thousandths) are the same amount to 2 decimals
Cents(x) == (x + 5) \div 10
SamePrice(p, stored) == Cents(IF p = None THEN 0 ELSE p[1]) = Cents(stored)
\* the update behind the m-th entry of the j-th POSTed batch
PostedIndex(j, m) == (j - 1) * BATCH_SIZE + m

\* C6 (as claimed): no entry POSTed for an offer whose element carried no
\* availability signal holds a `presence` or a `quantity_in_stock` key.
C6_Claim ==
    pc = "sent" =>
        \A j \in DOMAIN posted : \A m \in DOMAIN posted[j] :
            ~signal[upd_src[PostedIndex(j, m)]]
                => DOMAIN posted[j][m] \cap {"presence", "quantity_in_stock"} = {}

C8_Claim ==
    Built =>
        \A i \in DOMAIN offers :
            (~signal[i] /\ Matched(i))
                => (Included(i) <=> ~SamePrice(offers[i].price, Stored(i).price))

\* C9: an offer whose price equals the stored price to 2 decimals and whose
\* quantity equals the stored quantity needs no update and produces none; if
\* that holds for every offer, the change set is empty and nothing is POSTed.
Unchanged(i) ==
    /\ Matched(i)
    /\ offers[i].price # None
    /\ SamePrice(offers[i].price, Stored(i).price)
    /\ offers[i].quantity = Stored(i).quantity
C9_NoOpOnUnchanged ==
    Built =>
        /\ \A i \in DOMAIN offers :
              Unchanged(i)
                  => /\ ~needs_update(Stored(i), offers[i].price, offers[i].quantity)
                     /\ ~Included(i)
        /\ (\A i \in DOMAIN offers : Unchanged(i))
              => updates = <<>> /\ (pc = "sent" => posted = <<>>)

C9_Witness ==
    /\ pc = "sent"
    /\ Len(offers) > 1
    /\ \A i \in DOMAIN offers : Unchanged(i)
    /\ \E i \in DOMAIN offers : offers[i].price[1] # Stored(i).price
    /\ updates = <<>>

\* C10: a product of the Prom map that no parsed offer names gets no update:
\* no entry of the change set and no POSTed entry carries its id.
Absent(vc) == \A i \in DOMAIN offers : offers[i].vendor_code # vc
C10_AbsentNeverUpdated ==
    Built =>
        \A vc \in DOMAIN prom_map :
            Absent(vc)
                => /\ \A k \in DOMAIN updates : updates[k].id # prom_map[vc].id
                   /\ \A j \in DOMAIN posted : \A m \in DOMAIN posted[j] :
                         posted[j][m].id # prom_map[vc].id

C10_Witness ==
    /\ pc = "sent"
    /\ posted # <<>>
    /\ \E vc \in DOMAIN prom_map : Absent(vc) /\ prom_map[vc].quantity > 0

(***************************************************************************)
(* Batching and the concurrency limit (checked under SpecSend).            *)
(***************************************************************************)
Started == pc \in {"sending", "sent"} /\ updates # <<>>
\* ceil(n / b), stated without the arithmetic of NumBatches
CeilDiv(n, b) == CHOOSE k \in 0..n : k * b >= n /\ (k - 1) * b < n
RECURSIVE Concat(_, _)
\* bs[k] \o bs[k+1] \o ...
Concat(bs, k) == IF k > Len(bs) THEN <<>> ELSE bs[k] \o Concat(bs, k + 1)
RECURSIVE SumLen(_, _)
SumLen(bs, k) == IF k > Len(bs) THEN 0 ELSE Len(bs[k]) + SumLen(bs, k + 1)

\* C11: with TEST_MODE off, N updates are split into exactly ceil(N / B)
\* batches of 1..B items each, whose sizes sum to N and whose concatenation
\* in index order is the update list.
C11_BatchCompleteness ==
    (~TEST_MODE /\ Started) =>
        /\ Len(batches) = CeilDiv(Len(updates), BATCH_SIZE)
        /\ \A k \in DOMAIN batches : Len(batches[k]) \in 1..BATCH_SIZE
        /\ SumLen(batches, 1) = Len(updates)
        /\ Concat(batches, 1) = updates

C11_Witness ==
    /\ ~TEST_MODE /\ Started
    /\ Len(updates) > 2 * BATCH_SIZE
    /\ Len(batches) = 3
    /\ Len(batches[3]) < BATCH_SIZE

\* C12: at every moment at most MAX_CONCURRENT workers are inside send_batch
\* (so at most that many requests are in flight); the semaphore counts the
\* free slots, and with none free a queued worker stays queued.
Holding == { i \in DOMAIN batches : wpc[i] \in {"loop", "inflight", "sleep"} }
InFlight == { i \in DOMAIN batches : wpc[i] = "inflight" }
C12_BoundedConcurrency ==
    /\ Cardinality(InFlight) <= MAX_CONCURRENT
    /\ Cardinality(Holding) <= MAX_CONCURRENT
    /\ sem = MAX_CONCURRENT - Cardinality(Holding)
    /\ Cardinality(Holding) = MAX_CONCURRENT
          => \A i \in DOMAIN batches : wpc[i] = "queued" => ~ENABLED Acquire(i)

C12_Witness ==
    /\ Cardinality(InFlight) = MAX_CONCURRENT
    /\ \E i \in DOMAIN batches : wpc[i] = "queued"

(***************************************************************************)
(* Consecutive runs of main() on an unchanged feed: the Prom catalogue,    *)
(* the cache file of get_prom_products_map and the effect of the POSTs.    *)
(***************************************************************************)
MaxRuns == 2

\* load_cache_if_fresh(CACHE_FILE, CACHE_TTL) followed by `if cached`
\* (lines 134-144, 170-174): the cached map, None when there is no file, the
\* file is older than the TTL or it holds an empty map
UsableCache(c, fresh) ==
    IF c # None /\ fresh /\ c[1] # <<>> THEN c ELSE None

\* the catalogue after Prom has applied one entry of an accepted batch
ApplyEntry(rem, e) ==
    [vc \in DOMAIN rem |->
        IF rem[vc].id = e.id
        THEN PromItem(e.id,
                      IF "price" \in DOMAIN e THEN e.price ELSE rem[vc].price,
                      e.quantity_in_stock)
        ELSE rem[vc]]

RECURSIVE ApplyUpdates(_, _, _, _)
\* the catalogue after the entries k.. of an update list, of which those with
\* an index in `ok` were in a batch answered 200
ApplyUpdates(rem, upds, ok, k) ==
    IF k > Len(upds) THEN rem
    ELSE ApplyUpdates(IF k \in ok THEN ApplyEntry(rem, upds[k]) ELSE rem,
                      upds, ok, k + 1)

\* the indices of the updates that lie in the batches of okBatches
IndicesOf(upds, okBatches) ==
    { k \in DOMAIN upds : ((k - 1) \div BATCH_SIZE) + 1 \in okBatches }

InitRuns ==
    /\ pc = "start"
    /\ feed \in SeqsUpTo(OfferElems, MaxOffers)
    /\ offers = <<>> /\ signal = <<>>
    /\ prom_map = <<>>
    /\ updates = <<>> /\ upd_src = <<>>
    /\ posted = <<>>
    /\ run = 1
    /\ remote \in PromMaps
    /\ cache = None /\ cache_fresh = FALSE
    /\ prev = None
    /\ SendIdle /\ DetIdle /\ ParseIdle /\ GatherIdle /\ PageIdle

\* get_prom_products_map(use_cache=True), lines 168-182 and 288-295: a fresh,
\* non-empty cache is returned as it is; otherwise the listing is fetched and,
\* unless its first page fails (-> {} and no cache write), saved as the cache
GetPromMapCached ==
    /\ pc = "loaded"
    /\ IF UsableCache(cache, cache_fresh) # None
       THEN /\ prom_map' = UsableCache(cache, cache_fresh)[1]
            /\ UNCHANGED <<cache, cache_fresh>>
       ELSE \E first_page_ok \in BOOLEAN :
               IF first_page_ok
               THEN /\ prom_map' = remote
                    /\ cache' = Some(remote)
                    /\ cache_fresh' = TRUE
               ELSE /\ prom_map' = <<>>
                    /\ UNCHANGED <<cache, cache_fresh>>
    /\ pc' = "mapped"
    /\ UNCHANGED <<feed, offers, signal, updates, upd_src, posted>>
    /\ UNCHANGED <<run, remote, prev>>
    /\ UNCHANGED <<sendVars, detVars, parseVars, gatherVars, pageVars>>

\* main lines 435-442 with send_updates_async: every batch is POSTed and ends
\* as succeeded or failed; Prom applies the entries of the succeeded batches.
\* Nothing else is written: neither the cache file nor any other store.
DispatchRun ==
    /\ pc = "built"
    /\ ~DRY_RUN
    /\ posted' = Batches(updates)
    /\ \E okBatches \in SUBSET DOMAIN Batches(updates) :
          /\ remote' = ApplyUpdates(remote, updates, IndicesOf(updates, okBatches), 1)
          /\ prev' = Some([offers |-> offers, updates |-> updates, src |-> upd_src,
                           ok |-> IndicesOf(updates, okBatches)])
    /\ pc' = "sent"
    /\ UNCHANGED <<feed, offers, signal, prom_map, updates, upd_src>>
    /\ UNCHANGED <<run, cache, cache_fresh>>
    /\ UNCHANGED <<sendVars, detVars, parseVars, gatherVars, pageVars>>

\* the process ends; later main() is started again on the same feed, within
\* the cache TTL or after it
NextRun ==
    /\ pc = "sent"
    /\ run < MaxRuns
    /\ run' = run + 1
    /\ pc' = "start"
    /\ offers' = <<>> /\ signal' = <<>> /\ prom_map' = <<>>
    /\ updates' = <<>> /\ upd_src' = <<>> /\ posted' = <<>>
    /\ \E within_ttl \in BOOLEAN : cache_fresh' = (cache # None /\ within_ttl)
    /\ UNCHANGED <<feed, remote, cache, prev>>
    /\ UNCHANGED <<sendVars, detVars, parseVars, gatherVars, pageVars>>

NextRuns ==
    LoadAllFeeds \/ GetPromMapCached \/ BuildUpdates \/ DispatchRun \/ NextRun

SpecRuns == InitRuns /\ [][NextRuns]_vars

\* update k of the previous run came from an offer with a price whose vendor
\* code no other offer of the feed carries
PlainUpdate(k) ==
    LET o == prev[1].offers[prev[1].src[k]]
    IN  /\ o.price # None
        /\ \A i \in DOMAIN prev[1].offers :
              i # prev[1].src[k] => prev[1].offers[i].vendor_code # o.vendor_code
\* the current run's change set has an update for the product with this id
UpdatedNow(id) == \E k \in DOMAIN updates : updates[k].id = id

\* C13 (as claimed): in a run that follows one on the same offers, a product
\* whose batch succeeded in the previous run gets no update, and a product
\* whose batch failed is in the change set again (given that the Prom map
\* could be loaded).
C13_Claim ==
    (pc = "built" /\ prev # None /\ offers = prev[1].offers) =>
        \A k \in DOMAIN prev[1].updates :
            PlainUpdate(k) =>
                /\ k \in prev[1].ok => ~UpdatedNow(prev[1].updates[k].id)
                /\ (k \notin prev[1].ok /\ prom_map # <<>>)
                      => UpdatedNow(prev[1].updates[k].id)

(***************************************************************************)
(* change_detector.py: detect_changes and persist_state.                   *)
(* A feed URL is a number 1..n; a fingerprint is a string, "" when none.   *)
(* The stored document {url: {"fingerprint": fp}} is the function url ->   *)
(* fp.                                                                     *)
(***************************************************************************)
MaxUrls == 2

\* STATE_FILE on disk
File(kind, data) == [kind |-> kind, data |-> data]
NoFile == File("missing", <<>>)
\* empty: opened for writing and truncated; partial: json.dump is under way
EmptyFile == File("empty", <<>>)
PartialFile == File("partial", <<>>)
JsonFile(data) == File("json", data)

StoredFingerprints == {"", "e1", "h1"}
StoredStates(n) ==
    UNION { [D -> StoredFingerprints] : D \in SUBSET (1..n) }
StateFiles(n) ==
    {NoFile, EmptyFile} \cup { JsonFile(d) : d \in StoredStates(n) }

\* what session.head gives: an exception, or the two response headers
\* ("" for a header the response does not carry)
HeadResp(ok, etag, lm) == [ok |-> ok, etag |-> etag, last_modified |-> lm]
HeadOutcomes ==
    { HeadResp(FALSE, "", ""), HeadResp(TRUE, "", ""), HeadResp(TRUE, "e1", ""),
      HeadResp(TRUE, "", "m1"), HeadResp(TRUE, "e2", "m1") }
\* what session.get gives: an exception, or a body with this MD5 hex digest
BodyResp(ok, md5) == [ok |-> ok, md5 |-> md5]
BodyOutcomes == { BodyResp(FALSE, ""), BodyResp(TRUE, "h1") }

\* _load_state: {} when the file is missing or json.load fails
_load_state(f) == IF f.kind = "json" THEN f.data ELSE <<>>

\* _head_metadata: (etag, last_modified), both "" after an exception
_head_metadata(h) ==
    IF h.ok THEN <<h.etag, h.last_modified>> ELSE <<"", "">>

\* _hash_body: the digest, "" after an exception
_hash_body(b) == IF b.ok THEN b.md5 ELSE ""

\* detect_changes lines 58-61: the fingerprint of one URL
Fingerprint(h, b) ==
    LET m == _head_metadata(h)
        fp == IF m[1] # "" THEN m[1] ELSE m[2]
    IN  IF fp # "" THEN fp ELSE _hash_body(b)

\* old_state.get(url, {}).get("fingerprint", "")
OldFingerprint(old, url) == IF url \in DOMAIN old THEN old[url] ELSE ""

InitDetect ==
    /\ \E n \in 0..MaxUrls :
          /\ d_urls = [k \in 1..n |-> k]
          /\ state_file \in StateFiles(n)
    /\ d_pc = "idle"
    /\ d_old = <<>> /\ d_new = <<>> /\ d_changed = FALSE
    /\ d_seen = <<>> /\ d_base = None
    /\ MainIdle /\ SendIdle /\ RunIdle /\ ParseIdle /\ GatherIdle /\ PageIdle

\* detect_changes lines 53-55
DetectStart ==
    /\ d_pc = "idle"
    /\ d_old' = _load_state(state_file)
    /\ d_new' = <<>>
    /\ d_changed' = FALSE
    /\ d_pc' = "detecting"
    /\ UNCHANGED <<state_file, d_urls, d_seen, d_base>>
    /\ UNCHANGED <<mainVars, sendVars, runVars, parseVars, gatherVars, pageVars>>

\* detect_changes lines 57-64: one iteration of the loop over feed_urls; the
\* body is requested only when HEAD gave no validator
DetectUrl ==
    /\ d_pc = "detecting"
    /\ Len(d_seen) < Len(d_urls)
    /\ LET url == d_urls[Len(d_seen) + 1]
       IN  \E h \in HeadOutcomes, b \in BodyOutcomes :
              /\ (Fingerprint(h, BodyResp(FALSE, "")) # "") => b = BodyResp(FALSE, "")
              /\ d_seen' = Append(d_seen, [head |-> h, body |-> b])
              /\ d_new' = (url :> Fingerprint(h, b)) @@ d_new
              /\ d_changed' = (d_changed
                                 \/ OldFingerprint(d_old, url) # Fingerprint(h, b))
    /\ UNCHANGED <<state_file, d_pc, d_urls, d_old, d_base>>
    /\ UNCHANGED <<mainVars, sendVars, runVars, parseVars, gatherVars, pageVars>>

\* variant: detect_changes saves new_state itself before returning
DetectReturn_saving ==
    /\ d_pc = "detecting"
    /\ Len(d_seen) = Len(d_urls)
    /\ d_pc' = "detected"
    /\ state_file' = JsonFile(d_new)
    /\ UNCHANGED <<d_urls, d_old, d_new, d_changed, d_seen, d_base>>
    /\ UNCHANGED <<mainVars, sendVars, runVars, parseVars, gatherVars, pageVars>>

\* detect_changes line 65: return changed, new_state
DetectReturn ==
    /\ d_pc = "detecting"
    /\ Len(d_seen) = Len(d_urls)
    /\ d_pc' = "detected"
    /\ UNCHANGED <<state_file, d_urls, d_old, d_new, d_changed, d_seen, d_base>>
    /\ UNCHANGED <<mainVars, sendVars, runVars, parseVars, gatherVars, pageVars>>

\* persist_state(new_state) -> _save_state line 45: open(STATE_FILE, "w")
\* creates or truncates the file
PersistOpen ==
    /\ d_pc = "detected"
    /\ d_base' = Some(state_file)
    /\ state_file' = EmptyFile
    /\ d_pc' = "opened"
    /\ UNCHANGED <<d_urls, d_old, d_new, d_changed, d_seen>>
    /\ UNCHANGED <<mainVars, sendVars, runVars, parseVars, gatherVars, pageVars>>

\* _save_state line 46: json.dump has written a part of the document
PersistDump ==
    /\ d_pc = "opened"
    /\ state_file' = PartialFile
    /\ d_pc' = "dumping"
    /\ UNCHANGED <<d_urls, d_old, d_new, d_changed, d_seen, d_base>>
    /\ UNCHANGED <<mainVars, sendVars, runVars, parseVars, gatherVars, pageVars>>

\* _save_state: the document is complete and the file is closed
PersistClose ==
    /\ d_pc = "dumping"
    /\ state_file' = JsonFile(d_new)
    /\ d_pc' = "persisted"
    /\ UNCHANGED <<d_urls, d_old, d_new, d_changed, d_seen, d_base>>
    /\ UNCHANGED <<mainVars, sendVars, runVars, parseVars, gatherVars, pageVars>>

\* the process dies (kill, power loss, unhandled error of a later stage)
Crash ==
    /\ d_pc \in {"detecting", "detected", "opened", "dumping"}
    /\ d_pc' = "crashed"
    /\ UNCHANGED <<state_file, d_urls, d_old, d_new, d_changed, d_seen, d_base>>
    /\ UNCHANGED <<mainVars, sendVars, runVars, parseVars, gatherVars, pageVars>>

NextDetect ==
    \/ DetectStart \/ DetectUrl \/ DetectReturn
    \/ PersistOpen \/ PersistDump \/ PersistClose
    \/ Crash

SpecDetect == InitDetect /\ [][NextDetect]_vars

(***************************************************************************)
(* Properties of the change detector (checked under SpecDetect).           *)
(***************************************************************************)
\* C14 (as claimed): detect_changes returns changed = true whenever a listed
\* URL has no stored fingerprint, whatever HEAD and GET answered.
C14_Claim ==
    d_pc = "detected" =>
        ((\E k \in DOMAIN d_urls : d_urls[k] \notin DOMAIN d_old) => d_changed)

\* the fingerprint of a feed as the claim defines it: the ETag, else
\* Last-Modified, and the MD5 of the body only when neither was returned
ClaimedFingerprint(seen) ==
    IF seen.head.ok /\ seen.head.etag # "" THEN seen.head.etag
    ELSE IF seen.head.ok /\ seen.head.last_modified # "" THEN seen.head.last_modified
    ELSE seen.body.md5

\* C15 (as claimed): changed = false exactly when every listed URL has a
\* stored fingerprint equal to the fingerprint obtained in this run.
C15_Claim ==
    d_pc = "detected" =>
        (~d_changed <=>
            \A k \in DOMAIN d_urls :
                /\ d_urls[k] \in DOMAIN d_old
                /\ d_old[d_urls[k]] = ClaimedFingerprint(d_seen[k]))

\* C16: no step of detect_changes writes the stored state (the file is the
\* same before and after the call); it changes only in steps of persist_state.
C16_DetectDoesNotWrite ==
    [][ /\ d_pc \in {"idle", "detecting"} => state_file' = state_file
        /\ state_file' # state_file => d_pc \in {"detected", "opened", "dumping"}
      ]_vars

C16_Witness ==
    /\ d_pc = "detected"
    /\ d_changed
    /\ state_file.kind = "json"
    /\ state_file.data # d_new
    /\ d_urls # <<>>

\* C17 (as claimed): after a crash during persist_state the next run's
\* _load_state returns the complete state stored before the call.
C17_Claim ==
    (d_pc = "crashed" /\ d_base # None)
        => _load_state(state_file) = _load_state(d_base[1])

(***************************************************************************)
(* feed_parser.py: identity derivation (make_unique_code, iter_offers,     *)
(* fetch_offers_from_url).                                                 *)
(* A text is a sequence of one-character strings; an attribute or child    *)
(* element that the offer does not have is None, one that it has is        *)
(* Some(text).  An <offer> element is [id, vendorCode, content]: the id    *)
(* attribute, the text of <vendorCode>, and a number standing for the rest *)
(* of the element.                                                         *)
(***************************************************************************)
MaxElems == 2
MaxFeedIndex == 12

FeedIndexes == {1, MaxFeedIndex}

Letters == {"a", "b", "f", "g", "l", "m", "p", "t"}
DigitChars == {"0", "1", "2", "3", "4", "5", "6", "7", "8", "9"}
Whitespace == {" "}

OfferNode(id, vc, c) == [id |-> id, vendorCode |-> vc, content |-> c]

VendorCodeTexts ==
    { None, Some(<<>>), Some(<<" ">>), Some(<<"a">>), Some(<<" ", "a", " ">>),
      Some(<<"f", "1", "_", "a">>), Some(<<"a", "<">>) }
IdAttrs ==
    { None, Some(<<>>), Some(<<"b">>), Some(<<"f", "2", "_", "b">>) }
OfferNodes ==
    { OfferNode(i, v, 1) : i \in IdAttrs, v \in VendorCodeTexts }

\* str.strip(): leading and trailing whitespace removed
Strip(t) ==
    LET keep == { i \in 1..Len(t) : t[i] \notin Whitespace }
    IN  IF keep = {} THEN <<>>
        ELSE LET lo == CHOOSE i \in keep : \A j \in keep : i <= j
                 hi == CHOOSE i \in keep : \A j \in keep : j <= i
             IN  SubSeq(t, lo, hi)

\* str(n) for n >= 0
RECURSIVE Decimal(_)
Decimal(n) ==
    LET d == <<"0", "1", "2", "3", "4", "5", "6", "7", "8", "9">>[(n % 10) + 1]
    IN  IF n < 10 THEN <<d>> ELSE Append(Decimal(n \div 10), d)

\* fetch_offers_from_url line 185: f"f{feed_index}"
FeedPrefix(feed_index) == <<"f">> \o Decimal(feed_index)

RECURSIVE Join(_)
Join(pieces) ==
    IF pieces = <<>> THEN <<>> ELSE Head(pieces) \o Join(Tail(pieces))

\* the first position from i on whose character is outside class (Len + 1
\* when there is none)
RunEnd(t, i, class) ==
    LET stops == { j \in i..(Len(t) + 1) : j = Len(t) + 1 \/ t[j] \notin class }
    IN  CHOOSE j \in stops : \A k \in stops : j <= k

\* the lookahead of sanitize_text's regex: [a-zA-Z]+; or #\d+; follows t[i]
EntityFollows(t, i) ==
    \/ LET e == RunEnd(t, i + 1, Letters)
       IN  e > i + 1 /\ e <= Len(t) /\ t[e] = ";"
    \/ /\ i + 1 <= Len(t) /\ t[i + 1] = "#"
       /\ LET e == RunEnd(t, i + 2, DigitChars)
          IN  e > i + 2 /\ e <= Len(t) /\ t[e] = ";"

Amp == <<"&", "a", "m", "p", ";">>
Lt == <<"&", "l", "t", ";">>
Gt == <<"&", "g", "t", ";">>

\* sanitize_text lines 91-96
sanitize_text(t) ==
    Join([i \in 1..Len(t) |->
            IF t[i] = "&" /\ ~EntityFollows(t, i) THEN Amp
            ELSE IF t[i] = "<" THEN Lt
            ELSE IF t[i] = ">" THEN Gt
            ELSE <<t[i]>>])

\* sanitize_offer lines 99-105: every non-empty text of the element
sanitize_offer(elem) ==
    [elem EXCEPT !.vendorCode =
        IF @ # None /\ @[1] # <<>> THEN Some(sanitize_text(@[1])) ELSE @]

\* "x or None": an absent or empty value is None
OrNone(v) == IF v # None /\ v[1] # <<>> THEN v ELSE None

\* parse_offer_fields lines 109-110: (offer_id, vendor_code)
parse_offer_fields(elem) == <<OrNone(elem.id), OrNone(elem.vendorCode)>>

\* hashlib.md5(etree.tostring(elem)).hexdigest(): hexadecimal digits that
\* depend on the whole element
HexDigest(elem) ==
    <<"d">> \o (IF elem.id = None THEN <<"0">> ELSE <<"1">>)
            \o (IF elem.vendorCode = None THEN <<"0">> ELSE <<"1">>)
            \o Decimal(elem.content)

\* variant: the native id is preferred to the vendor code
make_unique_code_idFirst(prefix, offer_id, vendor_code, elem) ==
    LET chosen == IF offer_id # None THEN offer_id[1]
                  ELSE IF vendor_code # None THEN vendor_code[1]
                  ELSE HexDigest(elem)
    IN  prefix \o <<"_">> \o Strip(chosen)

\* make_unique_code lines 141-143
make_unique_code(prefix, offer_id, vendor_code, elem) ==
    LET chosen == IF vendor_code # None THEN vendor_code[1]
                  ELSE IF offer_id # None THEN offer_id[1]
                  ELSE HexDigest(elem)
    IN  prefix \o <<"_">> \o Strip(chosen)

\* etree.tostring: & < > in text and attribute values are written as entities
XmlEscape(t) ==
    Join([i \in 1..Len(t) |->
            IF t[i] = "&" THEN Amp
            ELSE IF t[i] = "<" THEN Lt
            ELSE IF t[i] = ">" THEN Gt
            ELSE <<t[i]>>])

StartsWith(t, pre) == Len(t) >= Len(pre) /\ SubSeq(t, 1, Len(pre)) = pre
Drop(t, n) == SubSeq(t, n + 1, Len(t))

\* the XML parser: entities in text and attribute values are resolved
RECURSIVE XmlUnescape(_)
XmlUnescape(t) ==
    IF t = <<>> THEN <<>>
    ELSE IF StartsWith(t, Amp) THEN <<"&">> \o XmlUnescape(Drop(t, Len(Amp)))
    ELSE IF StartsWith(t, Lt) THEN <<"<">> \o XmlUnescape(Drop(t, Len(Lt)))
    ELSE IF StartsWith(t, Gt) THEN <<">">> \o XmlUnescape(Drop(t, Len(Gt)))
    ELSE <<Head(t)>> \o XmlUnescape(Tail(t))

Serialize(elem) ==
    [elem EXCEPT !.id = IF @ = None THEN @ ELSE Some(XmlEscape(@[1])),
                 !.vendorCode = IF @ = None THEN @ ELSE Some(XmlEscape(@[1]))]
ParseXml(ser) ==
    [ser EXCEPT !.id = IF @ = None THEN @ ELSE Some(XmlUnescape(@[1])),
                !.vendorCode = IF @ = None THEN @ ELSE Some(XmlUnescape(@[1]))]

\* iter_offers lines 151-154: the arguments make_unique_code gets for one
\* parsed element, and its result
UniqueCodeCall(elem, feed_prefix) ==
    LET clean == sanitize_offer(elem)
        fields == parse_offer_fields(clean)
    IN  [prefix |-> feed_prefix, offer_id |-> fields[1],
         vendor_code |-> fields[2], elem |-> clean,
         code |-> make_unique_code(feed_prefix, fields[1], fields[2], clean)]

\* iter_offers lines 155-172: the element that is yielded, serialized
YieldOffer(elem, feed_prefix) ==
    LET unique_code == UniqueCodeCall(elem, feed_prefix).code
    IN  Serialize([elem EXCEPT !.id = Some(unique_code),
                               !.vendorCode = Some(unique_code)])

\* iter_offers lines 146-175 on a document given as its parsed <offer>s
iter_offers(doc, feed_prefix) ==
    [k \in DOMAIN doc |-> YieldOffer(doc[k], feed_prefix)]

InitParse ==
    /\ x_pc = "idle"
    /\ x_index \in FeedIndexes
    /\ x_doc \in SeqsUpTo(OfferNodes, MaxElems)
    /\ x_args = <<>> /\ x_out = <<>> /\ x_first = <<>>
    /\ MainIdle /\ SendIdle /\ RunIdle /\ DetIdle /\ GatherIdle /\ PageIdle

\* fetch_offers_from_url lines 178-191: [] unless the feed answers 200
FetchOffers ==
    /\ x_pc = "idle"
    /\ \E status \in {200, 404} :
          IF status # 200
          THEN /\ x_out' = <<>>
               /\ x_args' = <<>>
               /\ x_pc' = "failed"
          ELSE /\ x_out' = iter_offers(x_doc, FeedPrefix(x_index))
               /\ x_args' = [k \in DOMAIN x_doc |->
                               UniqueCodeCall(x_doc[k], FeedPrefix(x_index))]
               /\ x_pc' = "parsed"
    /\ UNCHANGED <<x_index, x_doc, x_first>>
    /\ UNCHANGED <<mainVars, sendVars, runVars, detVars, gatherVars, pageVars>>

\* iter_offers applied to the document it has produced
Reparse ==
    /\ x_pc = "parsed"
    /\ x_first' = x_out
    /\ LET doc == [k \in DOMAIN x_out |-> ParseXml(x_out[k])]
       IN  /\ x_out' = iter_offers(doc, FeedPrefix(x_index))
           /\ x_args' = [k \in DOMAIN doc |->
                           UniqueCodeCall(doc[k], FeedPrefix(x_index))]
    /\ x_pc' = "reparsed"
    /\ UNCHANGED <<x_index, x_doc>>
    /\ UNCHANGED <<mainVars, sendVars, runVars, detVars, gatherVars, pageVars>>

NextParse == FetchOffers \/ Reparse

SpecParse == InitParse /\ [][NextParse]_vars

(***************************************************************************)
(* Properties of identity derivation (checked under SpecParse).            *)
(***************************************************************************)
\* t begins with f<digits>_
HasFeedPrefix(t) ==
    /\ Len(t) >= 3
    /\ t[1] = "f"
    /\ LET e == RunEnd(t, 2, DigitChars)
       IN  e > 2 /\ e <= Len(t) /\ t[e] = "_"

\* the value a call derives the id from: the vendor code, else the native id
GivenCode(call) ==
    IF call.vendor_code # None THEN call.vendor_code
    ELSE call.offer_id

\* C18 (as claimed): a vendor code or native id that already matches
\* f<digits>_... is used verbatim as the id, and iter_offers applied to its
\* own output leaves every offer id unchanged.
C18_Claim ==
    /\ x_pc \in {"parsed", "reparsed"} =>
          \A k \in DOMAIN x_args :
              (GivenCode(x_args[k]) # None /\ HasFeedPrefix(GivenCode(x_args[k])[1]))
                  => x_args[k].code = GivenCode(x_args[k])[1]
    /\ x_pc = "reparsed" =>
          \A k \in DOMAIN x_out : x_out[k].id = x_first[k].id

\* the base as the claim words it: the vendor code when present, otherwise
\* the native id, otherwise the content hash
ClaimedBase(call) ==
    IF call.vendor_code # None THEN call.vendor_code[1]
    ELSE IF call.offer_id # None THEN call.offer_id[1]
    ELSE HexDigest(call.elem)

RECURSIVE TrimLeft(_)
TrimLeft(t) ==
    IF t # <<>> /\ Head(t) = " " THEN TrimLeft(Tail(t)) ELSE t
RECURSIVE TrimRight(_)
TrimRight(t) ==
    IF t # <<>> /\ t[Len(t)] = " " THEN TrimRight(SubSeq(t, 1, Len(t) - 1)) ELSE t
Trimmed(t) == TrimRight(TrimLeft(t))

\* "f" followed by the decimal digits of a feed index up to 99
ClaimedPrefix(n) ==
    LET d == <<"0", "1", "2", "3", "4", "5", "6", "7", "8", "9">>
    IN  IF n < 10 THEN <<"f", d[n + 1]>>
        ELSE <<"f", d[(n \div 10) + 1], d[(n % 10) + 1]>>

\* C19 (as claimed): the id is f{feedIndex}_{base} with base = the vendor
\* code when present, otherwise the native id, otherwise the content hash.
C19_Claim ==
    x_pc = "parsed" =>
        \A k \in DOMAIN x_args :
            x_args[k].code
                = ClaimedPrefix(x_index) \o <<"_">> \o ClaimedBase(x_args[k])

\* C19 (amended): the id is f{feedIndex}_{base}, where base is the first
\* non-empty of vendor code, native id and content hash with leading and
\* trailing whitespace removed; equal arguments give equal ids.
C19_IdentityDerivation ==
    x_pc = "parsed" =>
        /\ \A k \in DOMAIN x_args :
              x_args[k].code
                  = ClaimedPrefix(x_index) \o <<"_">>
                        \o Trimmed(ClaimedBase(x_args[k]))
        /\ \A j, k \in DOMAIN x_args :
              ( /\ x_args[j].vendor_code = x_args[k].vendor_code
                /\ x_args[j].offer_id = x_args[k].offer_id
                /\ x_args[j].elem = x_args[k].elem )
                  => x_args[j].code = x_args[k].code

C19_Witness ==
    /\ x_pc = "parsed"
    /\ x_index >= 10
    /\ \E j, k \in DOMAIN x_args :
          /\ x_args[j].vendor_code # None
          /\ x_args[j].offer_id # None
          /\ Trimmed(x_args[j].vendor_code[1]) # x_args[j].vendor_code[1]
          /\ x_args[k].vendor_code = None
          /\ x_args[k].offer_id = None

\* C20 (as claimed): every offer iter_offers emits has an id
\* f{feedIndex}_{base} with a non-empty base.
C20_Claim ==
    x_pc = "parsed" =>
        \A k \in DOMAIN x_out :
            LET id == XmlUnescape(x_out[k].id[1])
                pre == ClaimedPrefix(x_index) \o <<"_">>
            IN  StartsWith(id, pre) /\ Len(id) > Len(pre)

(***************************************************************************)
(* Availability inference (checked under Spec).                            *)
(***************************************************************************)
\* the elements of the document that fetch_feed turns into offers, in order
KeptElems(elems) == SelectSeq(elems, LAMBDA el : el.code # "" \/ el.id # "")

\* C21 (as claimed): when an offer has an explicit available attribute, the
\* attribute alone decides whether the offer is in stock, also when a
\* quantity tag is present.
C21_Claim ==
    (pc # "start" /\ Len(offers) = Len(KeptElems(feed))) =>
        \A j \in DOMAIN offers :
            LET el == KeptElems(feed)[j]
            IN  el.available # None =>
                    (offers[j].quantity > 0 <=> el.available[1] \in AvailableWords)

(***************************************************************************)
(* fetch_all_offers (feed_parser.py) and load_all_feeds (prom_updater.py): *)
(* one task per feed URL, gathered.                                        *)
(* A document is [n, bad]: it holds the <offer> elements 1..n, and element *)
(* bad (0: none) is malformed, so that the parser, which runs with         *)
(* recover=True, either recovers and delivers it or raises when it gets    *)
(* there.  The offer made from element k of feed i is <<i, k>> in          *)
(* feed_parser.py, whose ids carry the feed prefix, and <<0, k>> in        *)
(* prom_updater.py, whose offers do not name their feed.                   *)
(***************************************************************************)
MaxFeeds == 2
MaxDocLen == 2

Doc(n, bad) == [n |-> n, bad |-> bad]
Docs == UNION { { Doc(n, b) : b \in 0..n } : n \in 0..MaxDocLen }
Loaders == {"fetch_all_offers", "load_all_feeds"}
\* the download: status 200, another status, or an exception (timeout included)
Responses == {"200", "404", "exception"}

\* iter_offers lines 146-175: one try around the whole loop; what was yielded
\* before the exception stays in the caller's list
IterOffersYield(i, doc, raises) ==
    LET last_k == IF doc.bad # 0 /\ raises THEN doc.bad - 1 ELSE doc.n
    IN  [k \in 1..last_k |-> <<i, k>>]

\* fetch_offers_from_url lines 178-191
FetchOffersFromUrl(i, doc, resp, raises) ==
    IF resp # "200" THEN <<>> ELSE IterOffersYield(i, doc, raises)

\* fetch_feed lines 102-121: [] when the download fails, and [] when the parse
\* loop raises
FetchFeed(doc, resp, raises) ==
    IF resp # "200" THEN <<>>
    ELSE IF doc.bad # 0 /\ raises THEN <<>>
    ELSE [k \in 1..doc.n |-> <<0, k>>]

TaskResult(impl, i, doc, resp, raises) ==
    IF impl = "fetch_all_offers" THEN FetchOffersFromUrl(i, doc, resp, raises)
    ELSE FetchFeed(doc, resp, raises)

RECURSIVE Flatten(_)
\* [offer for sublist in results for offer in sublist]
Flatten(results) ==
    IF results = <<>> THEN <<>> ELSE Head(results) \o Flatten(Tail(results))

InitFeeds ==
    /\ g_pc = "idle"
    /\ g_impl \in Loaders
    /\ g_feeds \in SeqsUpTo(Docs, MaxFeeds)
    /\ g_done = <<>> /\ g_order = <<>> /\ g_all = None
    /\ MainIdle /\ SendIdle /\ RunIdle /\ DetIdle /\ ParseIdle /\ PageIdle

\* fetch_all_offers lines 195-197 / load_all_feeds lines 125-127: the tasks
\* are created and gather awaits them
StartGather ==
    /\ g_pc = "idle"
    /\ g_done' = [i \in DOMAIN g_feeds |-> None]
    /\ g_pc' = "fetching"
    /\ UNCHANGED <<g_impl, g_feeds, g_order, g_all>>
    /\ UNCHANGED <<mainVars, sendVars, runVars, detVars, parseVars, pageVars>>

\* the task of feed i runs to its end
FeedTask(i) ==
    /\ g_pc = "fetching"
    /\ g_done[i] = None
    /\ \E resp \in Responses, raises \in BOOLEAN :
          /\ raises => (resp = "200" /\ g_feeds[i].bad # 0)
          /\ g_done' = [g_done EXCEPT ![i] =
                Some([resp |-> resp, raises |-> raises,
                      offers |-> TaskResult(g_impl, i, g_feeds[i], resp, raises)])]
    /\ g_order' = Append(g_order, i)
    /\ UNCHANGED <<g_pc, g_impl, g_feeds, g_all>>
    /\ UNCHANGED <<mainVars, sendVars, runVars, detVars, parseVars, pageVars>>

\* variant: the lists are merged in the order the tasks finished
Merge_asCompleted ==
    /\ g_pc = "fetching"
    /\ \A i \in DOMAIN g_done : g_done[i] # None
    /\ g_all' = Some(Flatten([k \in DOMAIN g_order |-> g_done[g_order[k]][1].offers]))
    /\ g_pc' = "merged"
    /\ UNCHANGED <<g_impl, g_feeds, g_done, g_order>>
    /\ UNCHANGED <<mainVars, sendVars, runVars, detVars, parseVars, pageVars>>

\* gather returns the results in the order of the task list once every task
\* is done; they are flattened (lines 198 / 129)
Merge ==
    /\ g_pc = "fetching"
    /\ \A i \in DOMAIN g_done : g_done[i] # None
    /\ g_all' = Some(Flatten([i \in DOMAIN g_done |-> g_done[i][1].offers]))
    /\ g_pc' = "merged"
    /\ UNCHANGED <<g_impl, g_feeds, g_done, g_order>>
    /\ UNCHANGED <<mainVars, sendVars, runVars, detVars, parseVars, pageVars>>

NextFeeds ==
    \/ StartGather
    \/ \E i \in DOMAIN g_feeds : FeedTask(i)
    \/ Merge

SpecFeeds == InitFeeds /\ [][NextFeeds]_vars

(***************************************************************************)
(* Properties of the feed loaders (checked under SpecFeeds).               *)
(***************************************************************************)
\* the offer the running loader makes from element k of feed i
OfferFrom(i, k) == IF g_impl = "fetch_all_offers" THEN <<i, k>> ELSE <<0, k>>

\* C22 (as claimed): when one offer element of a downloaded feed fails, the
\* offers of all its other elements, before and after it, are returned.
C22_Claim ==
    g_pc = "merged" =>
        \A i \in DOMAIN g_feeds :
            g_done[i][1].resp = "200" =>
                \A k \in 1..g_feeds[i].n :
                    k # g_feeds[i].bad =>
                        \E j \in DOMAIN g_done[i][1].offers :
                            g_done[i][1].offers[j] = OfferFrom(i, k)

\* what C23 says feed i contributes: nothing when its download or its parse
\* failed, the offers of all its elements otherwise
ClaimedContribution(i) ==
    IF g_done[i][1].resp # "200" \/ g_done[i][1].raises THEN <<>>
    ELSE [k \in 1..g_feeds[i].n |-> OfferFrom(i, k)]

AmendedContribution(i) ==
    IF g_done[i][1].resp # "200" THEN <<>>
    ELSE IF ~g_done[i][1].raises
         THEN [k \in 1..g_feeds[i].n |-> OfferFrom(i, k)]
         ELSE IF g_impl = "load_all_feeds" THEN <<>>
              ELSE [k \in 1..(g_feeds[i].bad - 1) |-> OfferFrom(i, k)]

PER_PAGE == 2
MaxTotal == 6
MaxPages == 3

Failure == [ok |-> FALSE, items |-> 0, total |-> None]
Page(items, total) == [ok |-> TRUE, items |-> items, total |-> total]
Totals == {None} \cup { Some(t) : t \in 0..MaxTotal }
\* what fetch_prom_page (lines 155-165) can return for the first page and
\* for a later one, whose total is not looked at
FirstPages == {Failure} \cup { Page(c, t) : c \in 0..PER_PAGE, t \in Totals }
LaterPages == {Failure} \cup { Page(c, None) : c \in 0..PER_PAGE }

\* variant: the last, partly filled page is not counted
TotalPages_floor(total) == total \div PER_PAGE

\* line 188: ceil(int(total) / PER_PAGE)
TotalPages(total) == (total + PER_PAGE - 1) \div PER_PAGE

\* "if total": a total that is missing or 0 is falsy (lines 186-187)
Truthy(total) == total # None /\ total[1] # 0

\* the products of the pages fetched so far, as prom_map's key set
ProductsOf(got) ==
    { <<pg, k>> : pg \in DOMAIN got, k \in 1..PER_PAGE }
        \cap { pk \in (DOMAIN got) \X (1..PER_PAGE) :
                 got[pk[1]].ok /\ pk[2] <= got[pk[1]].items }

InitPages ==
    /\ p_pc = "idle"
    /\ p_total = None /\ p_page = 0 /\ p_pending = {}
    /\ p_req = <<>> /\ p_got = <<>> /\ p_cache = None
    /\ MainIdle /\ SendIdle /\ RunIdle /\ DetIdle /\ ParseIdle /\ GatherIdle

\* lines 179-208 up to the first await of the branch taken: the first page is
\* fetched; on failure {} is returned and nothing is saved
FirstPage ==
    /\ p_pc = "idle"
    /\ \E data \in FirstPages :
          /\ p_req' = <<1>>
          /\ p_got' = (1 :> data)
          /\ IF ~data.ok
             THEN /\ p_pc' = "failed"
                  /\ UNCHANGED <<p_total, p_page, p_pending>>
             ELSE /\ p_total' = data.total
                  /\ IF Truthy(data.total)
                     THEN /\ p_pending' = 2..TotalPages(data.total[1])
                          /\ p_pc' = IF TotalPages(data.total[1]) > 1
                                     THEN "gather" ELSE "build"
                          /\ UNCHANGED p_page
                     ELSE /\ p_page' = 2
                          /\ p_pc' = "loop"
                          /\ UNCHANGED p_pending
    /\ UNCHANGED p_cache
    /\ UNCHANGED <<mainVars, sendVars, runVars, detVars, parseVars, gatherVars>>

\* lines 195-202: one iteration of the fallback loop.  (The listing is
\* finite: page MaxPages is a failure or has no products.)
LoopPage ==
    /\ p_pc = "loop"
    /\ \E data \in LaterPages :
          /\ p_page = MaxPages => (~data.ok \/ data.items = 0)
          /\ p_req' = Append(p_req, p_page)
          /\ p_got' = (p_page :> data) @@ p_got
          /\ IF ~data.ok \/ data.items = 0
             THEN p_pc' = "build" /\ UNCHANGED p_page
             ELSE p_page' = p_page + 1 /\ UNCHANGED p_pc
    /\ UNCHANGED <<p_total, p_pending, p_cache>>
    /\ UNCHANGED <<mainVars, sendVars, runVars, detVars, parseVars, gatherVars>>

\* lines 209-214: page_worker(pg) has the semaphore and fetches its page; a
\* failed page counts as an empty one
PageWorker(pg) ==
    /\ p_pc = "gather"
    /\ pg \in p_pending
    /\ \E data \in LaterPages :
          /\ p_req' = Append(p_req, pg)
          /\ p_got' = (pg :> data) @@ p_got
    /\ p_pending' = p_pending \ {pg}
    /\ UNCHANGED <<p_pc, p_total, p_page, p_cache>>
    /\ UNCHANGED <<mainVars, sendVars, runVars, detVars, parseVars, gatherVars>>

\* lines 216-219: gather has every page
GatherPages ==
    /\ p_pc = "gather"
    /\ p_pending = {}
    /\ p_pc' = "build"
    /\ UNCHANGED <<p_total, p_page, p_pending, p_req, p_got, p_cache>>
    /\ UNCHANGED <<mainVars, sendVars, runVars, detVars, parseVars, gatherVars>>

\* lines 221-295: the map is built from the collected products and saved;
\* save_cache swallows a failure to write
BuildAndSave ==
    /\ p_pc = "build"
    /\ \E written \in BOOLEAN :
          p_cache' = IF written THEN Some(ProductsOf(p_got)) ELSE None
    /\ p_pc' = "done"
    /\ UNCHANGED <<p_total, p_page, p_pending, p_req, p_got>>
    /\ UNCHANGED <<mainVars, sendVars, runVars, detVars, parseVars, gatherVars>>

NextPages ==
    \/ FirstPage
    \/ LoopPage
    \/ \E pg \in p_pending : PageWorker(pg)
    \/ GatherPages
    \/ BuildAndSave

SpecPages == InitPages /\ [][NextPages]_vars

(***************************************************************************)
(* Properties of the listing pagination (checked under SpecPages).         *)
(***************************************************************************)
\* the listing call has returned after a first page that could be read
Listed == p_pc = "done"

\* the pages requested are exactly 1..n, each once
RequestedExactly(n) ==
    /\ Len(p_req) = n
    /\ \A pg \in 1..n : \E j \in DOMAIN p_req : p_req[j] = pg

\* C24 (as claimed): with a declared total T exactly the pages
\* 1..ceil(T / PER_PAGE) are requested, each once (page 1, which declares
\* the total, always being among them); without one the pages are requested
\* in order 1, 2, 3, ... and no page is requested after a page that returned
\* zero items.
C24_Claim ==
    Listed =>
        IF p_total # None
        THEN RequestedExactly(IF p_total[1] = 0 THEN 1
                              ELSE CeilDiv(p_total[1], PER_PAGE))
        ELSE /\ \A j \in DOMAIN p_req : p_req[j] = j
             /\ \A j \in DOMAIN p_req :
                   (p_got[p_req[j]].ok /\ p_got[p_req[j]].items = 0)
                       => j = Len(p_req)

\* C24 (amended): with a declared total T > 0 exactly the pages
\* 1..ceil(T / PER_PAGE) are requested, each once; with no declared total
\* (or a total of 0) page 1 and then pages 2, 3, ... are requested in order,
\* the last one requested being the first of them that fails or returns
\* zero items.
C24_Pagination ==
    p_pc \in {"build", "done"} =>
        IF p_total # None /\ p_total[1] > 0
        THEN RequestedExactly(CeilDiv(p_total[1], PER_PAGE))
        ELSE /\ Len(p_req) >= 2
             /\ \A j \in DOMAIN p_req : p_req[j] = j
             /\ \A j \in 2..Len(p_req) :
                   (~p_got[j].ok \/ p_got[j].items = 0) <=> j = Len(p_req)

C24_Witness ==
    /\ p_pc = "done"
    /\ p_total # None
    /\ Len(p_req) = 3
    /\ p_req[2] = 3
    /\ p_got[3].ok /\ p_got[3].items = 0

\* C28 (as claimed): the cache file is written only when every page request
\* of the call succeeded.
C28_Claim ==
    (p_pc \in {"failed", "done"} /\ p_cache # None)
        => \A pg \in DOMAIN p_got : p_got[pg].ok

(***************************************************************************)
(* Backoff and the concurrency slots (checked under SpecSend).             *)
(***************************************************************************)
Sleeping == { i \in DOMAIN batches : wpc[i] = "sleep" }

\* C25 (as claimed): a backoff sleep suspends only its own batch: whatever
\* number of batches sleep, a batch that has not been sent yet can take a
\* slot as long as fewer than MAX_CONCURRENT requests are in flight.
C25_Claim ==
    pc = "sending" =>
        \A i \in DOMAIN batches :
            ( /\ wpc[i] = "queued"
              /\ Holding = InFlight \cup Sleeping
              /\ Cardinality(InFlight) < MAX_CONCURRENT )
                => ENABLED Acquire(i)

(***************************************************************************)
(* Unreachable feeds and the stored fingerprints (checked under            *)
(* SpecDetect).                                                            *)
(***************************************************************************)
\* the k-th feed could not be reached: HEAD and the body fetch both failed
Unreachable(k) == ~d_seen[k].head.ok /\ ~d_seen[k].body.ok

\* C26 (as claimed): for a feed whose HEAD request and body fetch both fail,
\* the state detect_changes returns, and the file persist_state writes, keep
\* the fingerprint stored before.
C26_Claim ==
    d_pc \in {"detected", "persisted"} =>
        \A k \in DOMAIN d_urls :
            (Unreachable(k) /\ d_urls[k] \in DOMAIN d_old) =>
                /\ d_new[d_urls[k]] = d_old[d_urls[k]]
                /\ d_pc = "persisted" =>
                      state_file.data[d_urls[k]] = d_old[d_urls[k]]

(***************************************************************************)
(* One write per product (checked under Spec).                             *)
(***************************************************************************)
\* C27 (as claimed): the change set built by main holds at most one entry
\* per remote product id, so one run never POSTs two writes for a product.
C27_Claim ==
    /\ pc \in {"built", "sent"} =>
          \A j, k \in DOMAIN updates :
              updates[j].id = updates[k].id => j = k
    /\ pc = "sent" =>
          \A a, b \in DOMAIN posted :
              \A j \in DOMAIN posted[a], k \in DOMAIN posted[b] :
                  posted[a][j].id = posted[b][k].id => (a = b /\ j = k)

(***************************************************************************)
(* Termination of send_updates_async.  The event loop runs a task that is  *)
(* ready, every sleep ends and every request returns a response or raises: *)
(* a step that stays possible is eventually taken.                         *)
(***************************************************************************)
SpecSendLive == InitSend /\ [][NextSend]_vars /\ WF_vars(NextSend)

RECURSIVE SucceededSize(_)
\* the total size of the batches from k on that are recorded as succeeded
SucceededSize(k) ==
    IF k > Len(batches) THEN 0
    ELSE (IF result[k] # None /\ result[k][1] THEN Len(batches[k]) ELSE 0)
         + SucceededSize(k + 1)

Terminated ==
    /\ pc = "sent"
    /\ \A i \in DOMAIN batches : result[i] \in {Some(TRUE), Some(FALSE)}
    /\ sem = MAX_CONCURRENT
    /\ total_sent = Some(SucceededSize(1))

\* C29: send_updates_async terminates: eventually, and from then on, every
\* batch is recorded as succeeded or failed, every semaphore slot is free,
\* and the returned count is the total size of the succeeded batches.
C29_Termination == <>[]Terminated

C29_Witness ==
    /\ Terminated
    /\ Len(batches) > MAX_CONCURRENT
    /\ \E i, j \in DOMAIN batches :
          /\ result[i] = Some(FALSE) /\ sleeps[i] = MAX_RETRIES + 1
          /\ result[j] = Some(TRUE) /\ sleeps[j] > 0

====
